---- MODULE Spec2Model ----
(***************************************************************************)
(* ptstemmer: the suffix tree (suffix_tree.go) and the Portuguese Porter   *)
(* stemmer built on it (porter_stemmer.go).                                *)
(*                                                                         *)
(* A Go string is modelled as a TLA+ string, i.e. a sequence of            *)
(* characters; every word is taken to be valid UTF-8, so that a position   *)
(* counted in bytes by package strings and one counted in runes by         *)
(* []rune(word) name the same cut.  Positions are 0-based as in the source *)
(* wherever a definition carries the name of a Go function.                *)
(*                                                                         *)
(* String literals are kept in ASCII.  Each letter with a diacritic is     *)
(* written as one character that the source uses nowhere:                  *)
(*     A E I O U   for   a, e, i, o, u with acute accent                   *)
(*     4 3 0       for   a, e, o with circumflex                           *)
(*     @ &         for   a, o with tilde (the nasalised vowels)            *)
(*     C           for   c with cedilla                                    *)
(* so that, for instance, "aCa~o" is the registered suffix a-c,-a-~-o and  *)
(* "logIa" is l-o-g-i'-a.  The marker '~' is itself.  Comments spell words *)
(* as the source does.                                                     *)
(***************************************************************************)
EXTENDS Integers, Sequences, FiniteSets, TLC

VARIABLES
    st,         \* the suffix tree under test (*suffixTree)
    added,      \* history: the group each registered word was last added with
    call,       \* the last call of a read-only function, [fn, arg, ret], if
                \* nothing was written since
    arg,        \* the word handed to the region and nasalisation functions
    ps,         \* the engine (*PorterStemmer): vowels and the four trees
    pc,         \* per caller: the position reached inside Stem
    input,      \* per caller: the word passed to Stem
    frame,      \* per caller: Stem's locals stem, modified, r1, r2, rv, and
                \* the history of the steps it called
    result      \* per caller: the value returned by Stem

vars == <<st, added, call, arg, ps, pc, input, frame, result>>

treeVars == <<st, added>>
stemVars == <<pc, input, frame, result>>

-----------------------------------------------------------------------------
(* Bounds of the model.                                                    *)

\* Largest number of distinct words registered in the tree under test.
MaxSuffixes == 5
\* Longest word over RegionAlphabet given to r, rv, expand and contract.
MaxWordLen == 4
\* Longest head over StemAlphabet put in front of an ending to form an input of Stem.
MaxHeadLen == 2
\* Number of concurrent callers of Stem on one engine.
NumCallers == 2

-----------------------------------------------------------------------------
(* Package strings and slices.                                             *)

\* The rune at 0-based position i.
At(s, i) == SubSeq(s, i + 1, i + 1)

\* s[lo:], for 0 <= lo <= len(s).
SliceFrom(s, lo) == SubSeq(s, lo + 1, Len(s))

\* s[:hi], for 0 <= hi <= len(s).
SliceTo(s, hi) == SubSeq(s, 1, hi)

\* Whether s[:hi] (or s[hi:]) is a valid slice expression; Go panics otherwise.
InRange(s, hi) == 0 <= hi /\ hi <= Len(s)

HasSuffix(s, suffix) ==
    /\ Len(s) >= Len(suffix)
    /\ SubSeq(s, Len(s) - Len(suffix) + 1, Len(s)) = suffix

HasPrefix(s, prefix) ==
    /\ Len(s) >= Len(prefix)
    /\ SubSeq(s, 1, Len(prefix)) = prefix

\* strings.LastIndex: the position of the last instance of substr in s, or -1.
RECURSIVE lastIndexFrom(_, _, _)
lastIndexFrom(s, substr, i) ==
    IF i < 0 THEN -1
    ELSE IF SubSeq(s, i + 1, i + Len(substr)) = substr THEN i
    ELSE lastIndexFrom(s, substr, i - 1)

LastIndex(s, substr) == lastIndexFrom(s, substr, Len(s) - Len(substr))

\* strings.Replace(s, old, new, -1) for a non-empty old: every non-overlapping
\* instance of old, found left to right, is replaced by new.
RECURSIVE Replace(_, _, _)
Replace(s, old, new) ==
    IF Len(s) < Len(old) THEN s
    ELSE IF HasPrefix(s, old) THEN new \o Replace(SliceFrom(s, Len(old)), old, new)
    ELSE At(s, 0) \o Replace(SliceFrom(s, 1), old, new)

\* Whether substr occurs in s (strings.Contains).
Occurs(s, substr) == LastIndex(s, substr) >= 0

\* All words of at most n characters over the alphabet A.
RECURSIVE WordsUpTo(_, _)
WordsUpTo(A, n) ==
    IF n = 0 THEN {""}
    ELSE LET W == WordsUpTo(A, n - 1) IN W \cup {w \o c : w \in W, c \in A}

-----------------------------------------------------------------------------
(* suffix_tree.go                                                          *)

NoChildren == [c \in {} |-> {}]

newNode == [children |-> NoChildren, word |-> "", group |-> -1]

newSuffixTree == [root |-> newNode]

\* cnode.children[c] = t
setChild(children, c, t) == (c :> t) @@ children

\* The loop of Add from position i down to 0, then the two assignments to
\* the node reached; yields the node cnode as it is after the call.
RECURSIVE addFrom(_, _, _, _, _)
addFrom(cnode, runes, i, word, group) ==
    IF i < 0 THEN [cnode EXCEPT !.word = word, !.group = group]
    ELSE LET c == At(runes, i)
             n == IF c \in DOMAIN cnode.children
                     THEN cnode.children[c]
                     ELSE newNode
         IN  [cnode EXCEPT !.children =
                  setChild(@, c, addFrom(n, runes, i - 1, word, group))]

\* func (st *suffixTree) Add(word string, group int): the tree after the call.
Add(tree, word, group) ==
    [root |-> addFrom(tree.root, word, Len(word) - 1, word, group)]

\* The loop of Contains from position i down to 0 and the final test.
RECURSIVE containsFrom(_, _, _, _)
containsFrom(cnode, runes, i, word) ==
    IF i < 0 THEN cnode.word # "" /\ cnode.word = word
    ELSE LET c == At(runes, i)
         IN  IF c \in DOMAIN cnode.children
                THEN containsFrom(cnode.children[c], runes, i - 1, word)
                ELSE FALSE

\* Contains without the comparison of the stored word.
RECURSIVE reachableFrom(_, _, _)
reachableFrom(cnode, runes, i) ==
    IF i < 0 THEN TRUE
    ELSE LET c == At(runes, i)
         IN  IF c \in DOMAIN cnode.children
                THEN reachableFrom(cnode.children[c], runes, i - 1)
                ELSE FALSE

ContainsPath(tree, word) == reachableFrom(tree.root, word, Len(word) - 1)

\* func (st *suffixTree) Contains(word string) bool
Contains(tree, word) == containsFrom(tree.root, word, Len(word) - 1, word)

\* The loop of LongestSuffix from position i down to 0; cur holds
\* currentSuffix, currentSuffixSize and currentSuffixGroup.
RECURSIVE longestFrom(_, _, _, _)
longestFrom(cnode, runes, i, cur) ==
    IF i < 0 THEN cur
    ELSE LET c == At(runes, i)
         IN  IF c \in DOMAIN cnode.children
                THEN LET n  == cnode.children[c]
                         sz == Len(n.word)
                     IN  longestFrom(n, runes, i - 1,
                            IF n.word # "" /\ sz > cur.size
                               THEN [suffix |-> n.word, size |-> sz, group |-> n.group]
                               ELSE cur)
                ELSE cur

\* The loop keeping the first word met instead of the longest.
RECURSIVE shortestFrom(_, _, _, _)
shortestFrom(cnode, runes, i, cur) ==
    IF i < 0 THEN cur
    ELSE LET c == At(runes, i)
         IN  IF c \in DOMAIN cnode.children
                THEN LET n  == cnode.children[c]
                         sz == Len(n.word)
                     IN  shortestFrom(n, runes, i - 1,
                            IF n.word # "" /\ cur.size < 0
                               THEN [suffix |-> n.word, size |-> sz, group |-> n.group]
                               ELSE cur)
                ELSE cur

ShortestSuffix(tree, word) ==
    LET cur == shortestFrom(tree.root, word, Len(word) - 1,
                            [suffix |-> "", size |-> -1, group |-> -1])
    IN  <<cur.suffix, cur.group>>

\* func (st *suffixTree) LongestSuffix(word string) (string, int)
LongestSuffix(tree, word) ==
    LET cur == longestFrom(tree.root, word, Len(word) - 1,
                           [suffix |-> "", size |-> -1, group |-> -1])
    IN  <<cur.suffix, cur.group>>

\* The chain of calls Add(word, group) for the entries lo..hi of a sequence of
\* <<word, group>>, in order.  The chain is evaluated in two halves, and the
\* tree left by the first half is computed (its root read) before the second
\* half starts from it.
RECURSIVE addAll(_, _, _, _)
addAll(tree, entries, lo, hi) ==
    IF lo > hi THEN tree
    ELSE IF lo = hi THEN Add(tree, entries[lo][1], entries[lo][2])
    ELSE LET mid  == (lo + hi) \div 2
             left == addAll(tree, entries, lo, mid)
         IN  IF left.root.group >= -1
                THEN addAll(left, entries, mid + 1, hi)
                ELSE left

-----------------------------------------------------------------------------
(* porter_stemmer.go: construction                                         *)

step1Suffixes ==
    << <<"eza", 0>>, <<"ezas", 0>>, <<"ico", 0>>, <<"ica", 0>>,
       <<"icos", 0>>, <<"icas", 0>>, <<"ismo", 0>>, <<"ismos", 0>>,
       <<"Avel", 0>>, <<"Ivel", 0>>, <<"ista", 0>>, <<"istas", 0>>,
       <<"oso", 0>>, <<"osa", 0>>, <<"osos", 0>>, <<"osas", 0>>,
       <<"amento", 0>>, <<"amentos", 0>>, <<"imento", 0>>, <<"imentos", 0>>,
       <<"adora", 0>>, <<"ador", 0>>, <<"aCa~o", 0>>, <<"adoras", 0>>,
       <<"adores", 0>>, <<"aCo~es", 0>>, <<"ante", 0>>, <<"antes", 0>>,
       <<"4ncia", 0>>, <<"logIa", 1>>, <<"logIas", 1>>, <<"uciOn", 2>>,
       <<"uciones", 2>>, <<"3ncia", 3>>, <<"3ncias", 3>>, <<"amente", 4>>,
       <<"mente", 5>>, <<"idade", 6>>, <<"idades", 6>>, <<"iva", 7>>,
       <<"ivo", 7>>, <<"ivas", 7>>, <<"ivos", 7>>, <<"ira", 8>>,
       <<"iras", 8>> >>

step2Suffixes ==
    << <<"ada", 0>>, <<"ida", 0>>, <<"ia", 0>>, <<"aria", 0>>,
       <<"eria", 0>>, <<"iria", 0>>, <<"arA", 0>>, <<"ara", 0>>,
       <<"erA", 0>>, <<"era", 0>>, <<"irA", 0>>, <<"ava", 0>>,
       <<"asse", 0>>, <<"esse", 0>>, <<"isse", 0>>, <<"aste", 0>>,
       <<"este", 0>>, <<"iste", 0>>, <<"ei", 0>>, <<"arei", 0>>,
       <<"erei", 0>>, <<"irei", 0>>, <<"am", 0>>, <<"iam", 0>>,
       <<"ariam", 0>>, <<"eriam", 0>>, <<"iriam", 0>>, <<"aram", 0>>,
       <<"eram", 0>>, <<"iram", 0>>, <<"avam", 0>>, <<"em", 0>>,
       <<"arem", 0>>, <<"erem", 0>>, <<"irem", 0>>, <<"assem", 0>>,
       <<"essem", 0>>, <<"issem", 0>>, <<"ado", 0>>, <<"ido", 0>>,
       <<"ando", 0>>, <<"endo", 0>>, <<"indo", 0>>, <<"ara~o", 0>>,
       <<"era~o", 0>>, <<"ira~o", 0>>, <<"ar", 0>>, <<"er", 0>>,
       <<"ir", 0>>, <<"as", 0>>, <<"adas", 0>>, <<"idas", 0>>,
       <<"ias", 0>>, <<"arias", 0>>, <<"erias", 0>>, <<"irias", 0>>,
       <<"arAs", 0>>, <<"aras", 0>>, <<"erAs", 0>>, <<"eras", 0>>,
       <<"irAs", 0>>, <<"avas", 0>>, <<"es", 0>>, <<"ardes", 0>>,
       <<"erdes", 0>>, <<"irdes", 0>>, <<"ares", 0>>, <<"eres", 0>>,
       <<"ires", 0>>, <<"asses", 0>>, <<"esses", 0>>, <<"isses", 0>>,
       <<"astes", 0>>, <<"estes", 0>>, <<"istes", 0>>, <<"is", 0>>,
       <<"ais", 0>>, <<"eis", 0>>, <<"Ieis", 0>>, <<"arIeis", 0>>,
       <<"erIeis", 0>>, <<"irIeis", 0>>, <<"Areis", 0>>, <<"areis", 0>>,
       <<"Ereis", 0>>, <<"ereis", 0>>, <<"Ireis", 0>>, <<"ireis", 0>>,
       <<"Asseis", 0>>, <<"Esseis", 0>>, <<"Isseis", 0>>, <<"Aveis", 0>>,
       <<"ados", 0>>, <<"idos", 0>>, <<"Amos", 0>>, <<"amos", 0>>,
       <<"Iamos", 0>>, <<"arIamos", 0>>, <<"erIamos", 0>>, <<"irIamos", 0>>,
       <<"Aramos", 0>>, <<"Eramos", 0>>, <<"Iramos", 0>>, <<"Avamos", 0>>,
       <<"emos", 0>>, <<"aremos", 0>>, <<"eremos", 0>>, <<"iremos", 0>>,
       <<"Assemos", 0>>, <<"3ssemos", 0>>, <<"Issemos", 0>>, <<"imos", 0>>,
       <<"armos", 0>>, <<"ermos", 0>>, <<"irmos", 0>>, <<"eu", 0>>,
       <<"iu", 0>>, <<"ou", 0>>, <<"ira", 0>>, <<"iras", 0>> >>

step4Suffixes ==
    << <<"os", 0>>, <<"a", 0>>, <<"i", 0>>, <<"o", 0>>,
       <<"A", 0>>, <<"I", 0>>, <<"O", 0>> >>

step5Suffixes ==
    << <<"e", 0>>, <<"E", 0>>, <<"3", 0>> >>

\* The runes of "aeiouáéíóúâêô", the keys of ps.vowels.
vowelRunes == {"a", "e", "i", "o", "u", "A", "E", "I", "O", "U", "4", "3", "0"}

\* func NewPorterStemmer() *PorterStemmer
NewPorterStemmer ==
    [vowels          |-> vowelRunes,
     step1SuffixTree |-> addAll(newSuffixTree, step1Suffixes, 1, Len(step1Suffixes)),
     step2SuffixTree |-> addAll(newSuffixTree, step2Suffixes, 1, Len(step2Suffixes)),
     step4SuffixTree |-> addAll(newSuffixTree, step4Suffixes, 1, Len(step4Suffixes)),
     step5SuffixTree |-> addAll(newSuffixTree, step5Suffixes, 1, Len(step5Suffixes))]

-----------------------------------------------------------------------------
(* porter_stemmer.go: vowels, nasalised vowels and regions                 *)

\* func (ps *PorterStemmer) isVowel(r rune) bool
isVowel(p, r) == r \in p.vowels

\* func (ps *PorterStemmer) expandNasalisedVowels(word string) string
expandNasalisedVowels(word) == Replace(Replace(word, "@", "a~"), "&", "o~")

\* Contraction that handles 'a~' only.
contractOnlyA(word) == Replace(word, "a~", "@")

\* func (ps *PorterStemmer) contractNasalisedVowels(word string) string
contractNasalisedVowels(word) == Replace(Replace(word, "a~", "@"), "o~", "&")

\* The loop of r from position i on.
RECURSIVE rFrom(_, _, _)
rFrom(p, runes, i) ==
    IF ~(i < Len(runes) - 1) THEN ""
    ELSE IF isVowel(p, At(runes, i)) /\ ~isVowel(p, At(runes, i + 1))
            THEN SliceFrom(runes, i + 2)
            ELSE rFrom(p, runes, i + 1)

\* r whose loop starts at the second rune.
rSkippingFirst(p, word) == rFrom(p, word, 1)

\* func (ps *PorterStemmer) r(word string) string
r(p, word) == rFrom(p, word, 0)

\* The first position >= i whose rune is a vowel (wantVowel) or is not
\* (~wantVowel); -1 when the loop of rv runs to the end of the word.
RECURSIVE rvScan(_, _, _, _)
rvScan(p, runes, i, wantVowel) ==
    IF ~(i < Len(runes)) THEN -1
    ELSE IF isVowel(p, At(runes, i)) = wantVowel THEN i
    ELSE rvScan(p, runes, i + 1, wantVowel)

\* rv whose two-vowel branch falls through to the last return.
rvFallingThrough(p, word) ==
    IF Len(word) < 3 THEN ""
    ELSE IF ~isVowel(p, At(word, 1))
            THEN LET i == rvScan(p, word, 2, TRUE)
                 IN  IF i >= 0 THEN SliceFrom(word, i + 1)
                               ELSE SliceFrom(word, 3)
    ELSE IF isVowel(p, At(word, 0)) /\ isVowel(p, At(word, 1))
            THEN LET i == rvScan(p, word, 2, FALSE)
                 IN  IF i >= 0 THEN SliceFrom(word, i + 1)
                               ELSE SliceFrom(word, 3)
    ELSE SliceFrom(word, 3)

\* func (ps *PorterStemmer) rv(word string) string
rv(p, word) ==
    IF Len(word) < 3 THEN ""
    ELSE IF ~isVowel(p, At(word, 1))
            THEN LET i == rvScan(p, word, 2, TRUE)
                 IN  IF i >= 0 THEN SliceFrom(word, i + 1)
                               ELSE SliceFrom(word, 3)
    ELSE IF isVowel(p, At(word, 0)) /\ isVowel(p, At(word, 1))
            THEN LET i == rvScan(p, word, 2, FALSE)
                 IN  IF i >= 0 THEN SliceFrom(word, i + 1)
                               ELSE ""
    ELSE SliceFrom(word, 3)

-----------------------------------------------------------------------------
(* porter_stemmer.go: the five steps.  A step yields [word, modified, ok]; *)
(* ok is FALSE when a slice expression of the step is out of range, i.e.   *)
(* when the Go code panics.                                                *)

\* return word, false
kept(word) == [word |-> word, modified |-> FALSE, ok |-> TRUE]

\* lid := strings.LastIndex(word, sub); return word[:lid] + repl, true
cutLast(word, sub, repl) ==
    LET lid == LastIndex(word, sub)
    IN  IF InRange(word, lid)
           THEN [word |-> SliceTo(word, lid) \o repl, modified |-> TRUE, ok |-> TRUE]
           ELSE [word |-> word, modified |-> TRUE, ok |-> FALSE]

\* lid := strings.LastIndex(res, sub); res = res[:lid], inside case 4 of step1
trimLast(x, sub) ==
    LET lid == LastIndex(x.word, sub)
    IN  IF InRange(x.word, lid)
           THEN [x EXCEPT !.word = SliceTo(x.word, lid)]
           ELSE [x EXCEPT !.ok = FALSE]

\* case 4 of step1 with mod set before the test of R1.
step1AmenteFlagged(word, R1, R2, suffix) ==
    IF HasSuffix(R1, suffix)
       THEN cutLast(word, suffix, "")
       ELSE [word |-> word, modified |-> TRUE, ok |-> TRUE]

\* case 4 of step1 without the tests of what precedes the suffix.
step1AmenteOnly(word, R1, R2, suffix) ==
    IF HasSuffix(R1, suffix)
       THEN cutLast(word, suffix, "")
       ELSE kept(word)

\* case 4 of step1 (amente)
step1Amente(word, R1, R2, suffix) ==
    LET a == IF HasSuffix(R1, suffix)
                THEN cutLast(word, suffix, "")
                ELSE kept(word)
    IN  IF HasSuffix(R2, "iv" \o suffix)
           THEN LET b == trimLast(a, "iv")
                IN  IF HasSuffix(R2, "ativ" \o suffix)
                       THEN IF b.ok THEN trimLast(b, "at") ELSE b
                       ELSE b
        ELSE IF HasSuffix(R2, "os" \o suffix) THEN trimLast(a, "os")
        ELSE IF HasSuffix(R2, "ic" \o suffix) THEN trimLast(a, "ic")
        ELSE IF HasSuffix(R2, "ad" \o suffix) THEN trimLast(a, "ad")
        ELSE a

\* func (ps *PorterStemmer) step1(word, r1, r2, rv string) (string, bool)
step1(p, word, R1, R2, RV) ==
    LET ls     == LongestSuffix(p.step1SuffixTree, word)
        suffix == ls[1]
        group  == ls[2]
    IN  IF suffix = "" THEN kept(word)
        ELSE CASE group = 0 ->
                    IF HasSuffix(R2, suffix) THEN cutLast(word, suffix, "")
                    ELSE kept(word)
               [] group = 1 ->
                    IF HasSuffix(R2, suffix) THEN cutLast(word, suffix, "log")
                    ELSE kept(word)
               [] group = 2 ->
                    IF HasSuffix(R2, suffix) THEN cutLast(word, suffix, "u")
                    ELSE kept(word)
               [] group = 3 ->
                    IF HasSuffix(R2, suffix) THEN cutLast(word, suffix, "ente")
                    ELSE kept(word)
               [] group = 4 -> step1Amente(word, R1, R2, suffix)
               [] group = 5 ->
                    IF HasSuffix(R2, "ante" \o suffix)
                       THEN cutLast(word, "ante" \o suffix, "")
                    ELSE IF HasSuffix(R2, "avel" \o suffix)
                       THEN cutLast(word, "avel" \o suffix, "")
                    ELSE IF HasSuffix(R2, "Ivel" \o suffix)
                       THEN cutLast(word, "Ivel" \o suffix, "")
                    ELSE IF HasSuffix(R2, suffix)
                       THEN cutLast(word, suffix, "")
                    ELSE kept(word)
               [] group = 6 ->
                    IF HasSuffix(R2, "abil" \o suffix)
                       THEN cutLast(word, "abil" \o suffix, "")
                    ELSE IF HasSuffix(R2, "ic" \o suffix)
                       THEN cutLast(word, "ic" \o suffix, "")
                    ELSE IF HasSuffix(R2, "iv" \o suffix)
                       THEN cutLast(word, "iv" \o suffix, "")
                    ELSE IF HasSuffix(R2, suffix)
                       THEN cutLast(word, suffix, "")
                    ELSE kept(word)
               [] group = 7 ->
                    IF HasSuffix(R2, "at" \o suffix)
                       THEN cutLast(word, "at" \o suffix, "")
                    ELSE IF HasSuffix(R2, suffix)
                       THEN cutLast(word, suffix, "")
                    ELSE kept(word)
               [] group = 8 ->
                    IF HasSuffix(RV, suffix) /\ HasSuffix(word, "e" \o suffix)
                       THEN cutLast(word, suffix, "ir")
                    ELSE kept(word)
               [] OTHER -> kept(word)

\* func (ps *PorterStemmer) step2(word, r1, r2, rv string) (string, bool)
step2(p, word, R1, R2, RV) ==
    LET suffix == LongestSuffix(p.step2SuffixTree, RV)[1]
    IN  IF suffix = "" THEN kept(word) ELSE cutLast(word, suffix, "")

\* func (ps *PorterStemmer) step3(word, r1, r2, rv string) (string, bool)
step3(p, word, R1, R2, RV) ==
    IF HasSuffix(word, "ci") /\ HasSuffix(RV, "i")
       THEN [word |-> SliceTo(word, Len(word) - 1), modified |-> TRUE, ok |-> TRUE]
       ELSE kept(word)

\* step4 searching the whole word instead of RV.
step4OnWord(p, word, R1, R2, RV) ==
    LET suffix == LongestSuffix(p.step4SuffixTree, word)[1]
    IN  IF suffix = "" THEN kept(word) ELSE cutLast(word, suffix, "")

\* func (ps *PorterStemmer) step4(word, r1, r2, rv string) (string, bool)
step4(p, word, R1, R2, RV) ==
    LET suffix == LongestSuffix(p.step4SuffixTree, RV)[1]
    IN  IF suffix = "" THEN kept(word) ELSE cutLast(word, suffix, "")

\* step5 without the tests of 'gu' and 'ci'.
step5Plain(p, word, R1, R2, RV) ==
    LET suffix == LongestSuffix(p.step5SuffixTree, RV)[1]
    IN  IF suffix = ""
           THEN IF HasSuffix(word, "C") THEN cutLast(word, "C", "c")
                ELSE kept(word)
        ELSE cutLast(word, suffix, "")

\* func (ps *PorterStemmer) step5(word, r1, r2, rv string) (string, bool)
step5(p, word, R1, R2, RV) ==
    LET suffix == LongestSuffix(p.step5SuffixTree, RV)[1]
    IN  IF suffix = ""
           THEN IF HasSuffix(word, "C") THEN cutLast(word, "C", "c")
                ELSE kept(word)
        ELSE IF HasSuffix(RV, "u" \o suffix) /\ HasSuffix(word, "gu" \o suffix)
           THEN cutLast(word, "u" \o suffix, "")
        ELSE IF HasSuffix(RV, "i" \o suffix) /\ HasSuffix(word, "ci" \o suffix)
           THEN cutLast(word, "i" \o suffix, "")
        ELSE cutLast(word, suffix, "")

\* r1 = ps.r(stem); r2 = ps.r(r1); rv = ps.rv(stem)
update(p, f) ==
    [f EXCEPT !.r1 = r(p, f.stem), !.r2 = r(p, r(p, f.stem)), !.rv = rv(p, f.stem)]

\* stem, modified = ps.stepN(stem, r1, r2, rv); log is the history of the
\* steps called so far, each with the flag it returned, and calls the
\* history of the arguments each was called with (the locals f at the call).
assign(f, name, x) ==
    [f EXCEPT !.stem = x.word, !.modified = x.modified, !.ok = f.ok /\ x.ok,
              !.log = Append(@, [step |-> name, modified |-> x.modified]),
              !.calls = Append(@, [step |-> name, word |-> f.stem,
                                   r1 |-> f.r1, r2 |-> f.r2, rv |-> f.rv])]

\* Stem, lines 640-644: the locals before step 1.
enter(p, word) ==
    update(p, [stem |-> expandNasalisedVowels(word), modified |-> FALSE,
               r1 |-> "", r2 |-> "", rv |-> "", ok |-> TRUE, log |-> <<>>,
               calls |-> <<>>])

doStep1(p, f) == assign(f, "step1", step1(p, f.stem, f.r1, f.r2, f.rv))
doStep2(p, f) == assign(f, "step2", step2(p, f.stem, f.r1, f.r2, f.rv))
\* Step 3 called with the regions computed before lines 658-660.
doStep3Stale(p, f) == assign(f, "step3", step3(p, f.stem, f.r1, f.r2, f.rv))

doStep3(p, f) ==
    LET u == update(p, f) IN assign(u, "step3", step3(p, u.stem, u.r1, u.r2, u.rv))
doStep4(p, f) == assign(f, "step4", step4(p, f.stem, f.r1, f.r2, f.rv))
doUpdate(p, f) == IF f.modified THEN update(p, f) ELSE f
doStep5(p, f) == assign(f, "step5", step5(p, f.stem, f.r1, f.r2, f.rv))

\* The locals of Stem at its return statement, for a call that runs alone.
stemLocals(p, word) ==
    LET f0 == enter(p, word)
        f1 == doStep1(p, f0)
        f2 == IF ~f1.modified THEN doStep2(p, f1) ELSE f1
        f3 == IF f2.modified THEN doStep3(p, f2) ELSE doStep4(p, f2)
        f4 == doUpdate(p, f3)
    IN  doStep5(p, f4)

\* func (ps *PorterStemmer) Stem(word string) string
Stem(p, word) == contractNasalisedVowels(stemLocals(p, word).stem)

-----------------------------------------------------------------------------
(* Inputs.                                                                 *)

\* The words of TestContains and TestLongestSuffix and their neighbours.
TestSuffixes == {"ismos", "a", "ma", "dog", "ia"}
AddWords == TestSuffixes \cup {"mos"}
Groups == {0, 1}
QueryWords ==
    AddWords \cup {"", "algoritmos", "algorismos", "laia", "lama", "abaixa",
                   "ismo", "do", "dogs", "m"}

\* Vowels, consonants, the nasal vowels and the marker.
RegionAlphabet == {"a", "o", "b", "~", "@", "&"}
RegionWords ==
    WordsUpTo(RegionAlphabet, MaxWordLen)
        \cup {"animadversion", "imadversion", "sprinkled", "eucharist", "harist",
              "kled", "beau", "beauty", "y", "beautiful", "iful",
              "macho", "trabajo", "Aureo", "oliva", "00iii"}

NoCall == [fn |-> "none", arg |-> "", ret |-> ""]

-----------------------------------------------------------------------------
(* The suffix tree under test: Add, Contains and LongestSuffix called in   *)
(* any order on one tree.                                                  *)

\* No engine is constructed and nobody calls Stem.
NoEngine ==
    /\ ps = "nil"
    /\ pc = <<>>
    /\ input = <<>>
    /\ frame = <<>>
    /\ result = <<>>

InitTree ==
    /\ st = newSuffixTree
    /\ added = [w \in {} |-> 0]
    /\ call = NoCall
    /\ arg = ""
    /\ NoEngine

AddCall(word, group) ==
    /\ word \in DOMAIN added \/ Cardinality(DOMAIN added) < MaxSuffixes
    /\ st' = Add(st, word, group)
    /\ added' = (word :> group) @@ added
    /\ call' = NoCall
    /\ UNCHANGED <<arg, ps, stemVars>>

ContainsCall(word) ==
    /\ call' = [fn |-> "Contains", arg |-> word, ret |-> Contains(st, word)]
    /\ UNCHANGED <<treeVars, arg, ps, stemVars>>

LongestSuffixCall(word) ==
    /\ call' = [fn |-> "LongestSuffix", arg |-> word, ret |-> LongestSuffix(st, word)]
    /\ UNCHANGED <<treeVars, arg, ps, stemVars>>

NextTree ==
    \/ \E word \in AddWords, group \in Groups : AddCall(word, group)
    \/ \E word \in QueryWords : ContainsCall(word)
    \/ \E word \in QueryWords : LongestSuffixCall(word)

SpecTree == InitTree /\ [][NextTree]_vars

\* C1: whenever LongestSuffix(word) has just returned on a tree in which only
\* non-empty suffixes were registered, its result is the sentinel ("", -1) if
\* no registered suffix is a trailing substring of word, and otherwise the
\* registered trailing substring of word of maximum length together with the
\* group it was (last) registered with.
C1_LongestSuffixIsLongestRegistered ==
    call.fn = "LongestSuffix" =>
        LET cands == {s \in DOMAIN added : HasSuffix(call.arg, s)}
        IN  IF cands = {}
               THEN call.ret = <<"", -1>>
               ELSE \E s \in cands :
                       /\ \A t \in cands : Len(t) <= Len(s)
                       /\ call.ret = <<s, added[s]>>

\* The scenario of TestLongestSuffix: "ismos", "a", "ma", "dog", "ia" under
\* group 1, and LongestSuffix("algorismos") has returned ("ismos", 1).
C1_Witness ==
    /\ DOMAIN added = TestSuffixes
    /\ \A s \in TestSuffixes : added[s] = 1
    /\ call = [fn |-> "LongestSuffix", arg |-> "algorismos", ret |-> <<"ismos", 1>>]

\* C2: whenever Contains(word) has just returned, it returned true if and only
\* if word is one of the registered strings.
C2_ContainsIffRegistered ==
    call.fn = "Contains" => (call.ret <=> call.arg \in DOMAIN added)

\* "ismos" is registered, "mos" (a trailing part of it) is not, and
\* Contains("mos") has returned false.
C2_Witness ==
    /\ "ismos" \in DOMAIN added
    /\ "mos" \notin DOMAIN added
    /\ call = [fn |-> "Contains", arg |-> "mos", ret |-> FALSE]

-----------------------------------------------------------------------------
(* The region and nasalisation functions, each applied to one word.        *)

\* No suffix tree is under test.
NoTree ==
    /\ st = "nil"
    /\ added = <<>>

InitRegion ==
    /\ NoTree
    /\ call = NoCall
    /\ arg \in RegionWords
    /\ ps = NewPorterStemmer
    /\ pc = <<>>
    /\ input = <<>>
    /\ frame = <<>>
    /\ result = <<>>

RCall ==
    /\ call' = [fn |-> "r", arg |-> arg, ret |-> r(ps, arg)]
    /\ UNCHANGED <<treeVars, arg, ps, stemVars>>

RVCall ==
    /\ call' = [fn |-> "rv", arg |-> arg, ret |-> rv(ps, arg)]
    /\ UNCHANGED <<treeVars, arg, ps, stemVars>>

ExpandCall ==
    /\ call' = [fn |-> "expandNasalisedVowels", arg |-> arg,
                ret |-> expandNasalisedVowels(arg)]
    /\ UNCHANGED <<treeVars, arg, ps, stemVars>>

\* Contraction of what the expansion of arg returned.
ContractCall ==
    /\ call.fn = "expandNasalisedVowels"
    /\ call' = [fn |-> "contractNasalisedVowels", arg |-> call.ret,
                ret |-> contractNasalisedVowels(call.ret)]
    /\ UNCHANGED <<treeVars, arg, ps, stemVars>>

NextRegion == RCall \/ RVCall \/ ExpandCall \/ ContractCall

SpecRegion == InitRegion /\ [][NextRegion]_vars

\* Whether the rune of w at 0-based position i is one of "aeiouáéíóúâêô".
VowelAt(w, i) == At(w, i) \in vowelRunes

\* The least element of a non-empty set of integers.
Least(S) == CHOOSE i \in S : \A j \in S : i <= j

\* C7: for a word of at least 3 characters whose second character is a
\* consonant, rv(word) is "" when no vowel stands at index 2 or later, and
\* otherwise the substring after the first vowel at an index >= 2.
C7_RvSecondConsonant ==
    (call.fn = "rv" /\ Len(call.arg) >= 3 /\ ~VowelAt(call.arg, 1)) =>
        LET w == call.arg
            V == {i \in 2..(Len(w) - 1) : VowelAt(w, i)}
        IN  IF V = {} THEN call.ret = ""
            ELSE call.ret = SliceFrom(w, Least(V) + 1)

\* C8: rv(word) is "" for every word of fewer than 3 characters; for a longer
\* word starting with two vowels it is the substring after the first
\* consonant at an index >= 2, and "" if there is none; for a word starting
\* with a consonant followed by a vowel it is the substring from index 3 on.
C8_RvShortVowelVowelConsonantVowel ==
    call.fn = "rv" =>
        LET w == call.arg
            K == {i \in 2..(Len(w) - 1) : ~VowelAt(w, i)}
        IN  /\ Len(w) < 3 => call.ret = ""
            /\ (Len(w) >= 3 /\ VowelAt(w, 0) /\ VowelAt(w, 1)) =>
                  IF K = {} THEN call.ret = ""
                  ELSE call.ret = SliceFrom(w, Least(K) + 1)
            /\ (Len(w) >= 3 /\ ~VowelAt(w, 0) /\ VowelAt(w, 1)) =>
                  call.ret = SliceFrom(w, 3)

\* rv("ôôiii") has returned "": two leading vowels and no consonant after.
C8_Witness == call = [fn |-> "rv", arg |-> "00iii", ret |-> ""]

\* C9: r(word) is the substring starting at index i+2 for the smallest i such
\* that character i is a vowel and character i+1 exists and is not a vowel,
\* and "" when there is no such i; r("beautiful") = "iful", r("iful") = "ul",
\* r("beau") = "" and r("") = "".
C9_RAfterFirstVowelConsonant ==
    call.fn = "r" =>
        LET w == call.arg
            T == {i \in 0..(Len(w) - 2) : VowelAt(w, i) /\ ~VowelAt(w, i + 1)}
        IN  /\ IF T = {} THEN call.ret = ""
               ELSE call.ret = SliceFrom(w, Least(T) + 2)
            /\ w = "beautiful" => call.ret = "iful"
            /\ w = "iful" => call.ret = "ul"
            /\ w = "beau" => call.ret = ""
            /\ w = "" => call.ret = ""

\* r("beautiful") has returned "iful".
C9_Witness == call = [fn |-> "r", arg |-> "beautiful", ret |-> "iful"]

\* C10: for every word without the marker '~', contracting the expansion of
\* the word gives the word back.
C10_ContractInvertsExpand ==
    (call.fn = "contractNasalisedVowels" /\ ~Occurs(arg, "~")) => call.ret = arg

\* A word with both nasal vowels was expanded to "a~o~ao" and contracted back.
C10_Witness ==
    /\ arg = "@&ao"
    /\ call = [fn |-> "contractNasalisedVowels", arg |-> "a~o~ao", ret |-> "@&ao"]

-----------------------------------------------------------------------------
(* Stem.  A call is at "enter" before line 640, at "stepN" before the call *)
(* of stepN, at "update" before line 669, at "done" after the return, and  *)
(* at "panic" if a slice expression was out of range.                      *)

\* The words of the suffix tables, as registered and with 'a~', 'o~' written
\* as the nasal vowels they stand for.
Range(seq) == {seq[i] : i \in 1..Len(seq)}
TableSuffixes ==
    {e[1] : e \in Range(step1Suffixes) \cup Range(step2Suffixes)
                  \cup Range(step4Suffixes) \cup Range(step5Suffixes)}

\* Endings the steps look for in front of or instead of a table suffix, and
\* no ending at all.
ExtraEndings ==
    {"", "ivamente", "ativamente", "osamente", "icamente", "adamente",
     "antemente", "avelmente", "Ivelmente", "abilidade", "icidade", "ividade",
     "ativa", "ativos", "eira", "eiras", "gue", "cie", "gu3", "ci", "ciam",
     "cia", "ciar", "C", "Ce", "Ca~", "~e", "a~"}

Endings ==
    TableSuffixes \cup {contractNasalisedVowels(e) : e \in TableSuffixes}
                  \cup ExtraEndings

\* A vowel, a consonant, the nasal vowels, the marker and the cedilla.
StemAlphabet == {"a", "b", "@", "&", "~", "C"}

\* Heads long enough to put a whole compound ending inside R2.
LongHeads == {"abab", "babab", "aabab", "@bab"}

\* The words of TestStemmer.
TestWords ==
    {"A", "ajuda", "ajudA", "ajudado", "ajudou", "ajud", "abafaram", "abaixa",
     "abraCada", "adequadamente", "aErea", "anatomicamente", "cheira", "00iii"}

StemInputs ==
    {h \o e : h \in WordsUpTo(StemAlphabet, MaxHeadLen) \cup LongHeads, e \in Endings}
        \cup TestWords

\* The words given to concurrent callers.
ConcInputs == {"ajudou", "abafaram", "adequadamente", "cheira", "aC@o", ""}

NoFrame ==
    [stem |-> "", modified |-> FALSE, r1 |-> "", r2 |-> "", rv |-> "",
     ok |-> TRUE, log |-> <<>>, calls |-> <<>>]

InitStem ==
    /\ NoTree
    /\ call = NoCall
    /\ arg = ""
    /\ ps = NewPorterStemmer
    /\ pc = [c \in {1} |-> "enter"]
    /\ input \in [{1} -> StemInputs]
    /\ frame = [c \in {1} |-> NoFrame]
    /\ result = [c \in {1} |-> ""]

InitConc ==
    /\ NoTree
    /\ call = NoCall
    /\ arg = ""
    /\ ps = NewPorterStemmer
    /\ pc = [c \in 1..NumCallers |-> "enter"]
    /\ input \in [1..NumCallers -> ConcInputs]
    /\ frame = [c \in 1..NumCallers |-> NoFrame]
    /\ result = [c \in 1..NumCallers |-> ""]

\* Where a call goes after a step, given the locals the step left.
goto(f, next) == IF f.ok THEN next ELSE "panic"

\* Lines 640-644.
Enter(c) ==
    /\ pc[c] = "enter"
    /\ frame' = [frame EXCEPT ![c] = enter(ps, input[c])]
    /\ pc' = [pc EXCEPT ![c] = "step1"]
    /\ UNCHANGED <<treeVars, call, arg, ps, input, result>>

\* A step 1 after which step 2 is called whatever step 1 reported.
Step1ThenStep2(c) ==
    /\ pc[c] = "step1"
    /\ LET f == doStep1(ps, frame[c])
       IN  /\ frame' = [frame EXCEPT ![c] = f]
           /\ pc' = [pc EXCEPT ![c] = goto(f, "step2")]
    /\ UNCHANGED <<treeVars, call, arg, ps, input, result>>

\* Line 647 and the test of line 650.
Step1(c) ==
    /\ pc[c] = "step1"
    /\ LET f == doStep1(ps, frame[c])
       IN  /\ frame' = [frame EXCEPT ![c] = f]
           /\ pc' = [pc EXCEPT ![c] =
                        goto(f, IF ~f.modified THEN "step2" ELSE "step3")]
    /\ UNCHANGED <<treeVars, call, arg, ps, input, result>>

\* A step 2 that stores its last match in the root of its tree.
Step2Caching(c) ==
    /\ pc[c] = "step2"
    /\ LET f == doStep2(ps, frame[c])
       IN  /\ frame' = [frame EXCEPT ![c] = f]
           /\ pc' = [pc EXCEPT ![c] =
                        goto(f, IF f.modified THEN "step3" ELSE "step4")]
           /\ ps' = [ps EXCEPT !.step2SuffixTree.root.word =
                        LongestSuffix(ps.step2SuffixTree, frame[c].rv)[1]]
    /\ UNCHANGED <<treeVars, call, arg, input, result>>

\* Line 651 and the test of line 655.
Step2(c) ==
    /\ pc[c] = "step2"
    /\ LET f == doStep2(ps, frame[c])
       IN  /\ frame' = [frame EXCEPT ![c] = f]
           /\ pc' = [pc EXCEPT ![c] =
                        goto(f, IF f.modified THEN "step3" ELSE "step4")]
    /\ UNCHANGED <<treeVars, call, arg, ps, input, result>>

\* Lines 658-662.
Step3(c) ==
    /\ pc[c] = "step3"
    /\ LET f == doStep3(ps, frame[c])
       IN  /\ frame' = [frame EXCEPT ![c] = f]
           /\ pc' = [pc EXCEPT ![c] = goto(f, "update")]
    /\ UNCHANGED <<treeVars, call, arg, ps, input, result>>

\* Line 666.
Step4(c) ==
    /\ pc[c] = "step4"
    /\ LET f == doStep4(ps, frame[c])
       IN  /\ frame' = [frame EXCEPT ![c] = f]
           /\ pc' = [pc EXCEPT ![c] = goto(f, "update")]
    /\ UNCHANGED <<treeVars, call, arg, ps, input, result>>

\* Lines 669-673.
Update(c) ==
    /\ pc[c] = "update"
    /\ frame' = [frame EXCEPT ![c] = doUpdate(ps, frame[c])]
    /\ pc' = [pc EXCEPT ![c] = "step5"]
    /\ UNCHANGED <<treeVars, call, arg, ps, input, result>>

\* Lines 676-678.
Step5(c) ==
    /\ pc[c] = "step5"
    /\ LET f == doStep5(ps, frame[c])
       IN  /\ frame' = [frame EXCEPT ![c] = f]
           /\ pc' = [pc EXCEPT ![c] = goto(f, "done")]
           /\ result' = [result EXCEPT ![c] =
                            IF f.ok THEN contractNasalisedVowels(f.stem) ELSE @]
    /\ UNCHANGED <<treeVars, call, arg, ps, input>>

NextStem ==
    \/ \E c \in DOMAIN pc : Enter(c)
    \/ \E c \in DOMAIN pc : Step1(c)
    \/ \E c \in DOMAIN pc : Step2(c)
    \/ \E c \in DOMAIN pc : Step3(c)
    \/ \E c \in DOMAIN pc : Step4(c)
    \/ \E c \in DOMAIN pc : Update(c)
    \/ \E c \in DOMAIN pc : Step5(c)

\* One call of Stem on every input.
SpecStem == InitStem /\ [][NextStem]_vars

\* NumCallers calls of Stem on one engine, interleaved in any way.
SpecConc == InitConc /\ [][NextStem]_vars

\* C3: Stem("ajuda"), Stem("ajudá"), Stem("ajudado") and Stem("ajudou") are
\* all "ajud", Stem("ajud") is "ajud" (so stemming these stems again changes
\* nothing), Stem("abafaram") is "abaf", and "á" and "ôôiii" are returned
\* unchanged.
C3_InflectedVariantsShareStem ==
    \A c \in DOMAIN pc :
        pc[c] = "done" =>
            /\ input[c] \in {"ajuda", "ajudA", "ajudado", "ajudou", "ajud"}
                  => result[c] = "ajud"
            /\ input[c] = "abafaram" => result[c] = "abaf"
            /\ input[c] \in {"A", "00iii"} => result[c] = input[c]

\* Stem("abafaram") has returned "abaf", step 2 having removed "aram".
C3_Witness ==
    \E c \in DOMAIN pc :
        /\ pc[c] = "done"
        /\ input[c] = "abafaram"
        /\ result[c] = "abaf"
        /\ [step |-> "step2", modified |-> TRUE] \in Range(frame[c].log)

\* C4: no call of Stem ever uses an index that is not a valid position of the
\* word it cuts (no call panics), and Stem("") returns "".
C4_StemIsTotal ==
    \A c \in DOMAIN pc :
        /\ pc[c] # "panic"
        /\ frame[c].ok
        /\ (pc[c] = "done" /\ input[c] = "") => result[c] = ""

\* Stem has returned on a word on which step 1 cut three times (amente, iv
\* and at), each cut at a position found by a search in the word.
C4_Witness ==
    \E c \in DOMAIN pc :
        /\ pc[c] = "done"
        /\ input[c] = "ababativamente"
        /\ result[c] = "abab"
        /\ frame[c].log[1] = [step |-> "step1", modified |-> TRUE]

\* C5: if none of the steps called during a call of Stem reports a
\* modification, Stem returns its input word unchanged.
C5_NoRuleMatchedReturnsInput ==
    \A c \in DOMAIN pc :
        (pc[c] = "done" /\ \A i \in DOMAIN frame[c].log : ~frame[c].log[i].modified)
            => result[c] = input[c]

\* C6: under every interleaving of the callers' steps the engine stays as
\* NewPorterStemmer built it, and a call that has returned has returned what
\* the same call returns when it runs alone.
C6_StemOnlyReadsEngine ==
    /\ ps = NewPorterStemmer
    /\ \A c \in DOMAIN pc :
           pc[c] = "done" => result[c] = Stem(NewPorterStemmer, input[c])

\* Two callers are inside Stem at once, both past step 2, and one has returned.
C6_Witness ==
    /\ pc[1] = "done"
    /\ pc[2] = "step3"
    /\ input[1] = "abafaram"
    /\ input[2] = "ajudou"
    /\ result[1] = "abaf"

\* C11: in every call of Stem, each step was called with the regions of the
\* word it was called with: r1 = r(word), r2 = r(r1) and rv = rv(word); no
\* step is given regions computed from a version of the word that a step has
\* modified since.
C11_StepsGetCurrentRegions ==
    \A c \in DOMAIN pc :
        \A i \in DOMAIN frame[c].calls :
            LET k == frame[c].calls[i]
            IN  /\ k.r1 = r(ps, k.word)
                /\ k.r2 = r(ps, r(ps, k.word))
                /\ k.rv = rv(ps, k.word)

\* Stem has returned on a word that step 2 and then step 3 modified: steps 1
\* and 2 saw "ababciar", step 3 saw "ababci" and step 5 saw "ababc", each
\* with other regions.
C11_Witness ==
    \E c \in DOMAIN pc :
        /\ pc[c] = "done"
        /\ input[c] = "ababciar"
        /\ Len(frame[c].calls) = 4
        /\ frame[c].calls[2] =
              [step |-> "step2", word |-> "ababciar", r1 |-> "abciar",
               r2 |-> "ciar", rv |-> "bciar"]
        /\ frame[c].calls[3] =
              [step |-> "step3", word |-> "ababci", r1 |-> "abci",
               r2 |-> "ci", rv |-> "bci"]
        /\ frame[c].calls[4] =
              [step |-> "step5", word |-> "ababc", r1 |-> "abc",
               r2 |-> "c", rv |-> "bc"]

\* The steps a call of Stem runs, in order, given what step 1 and step 2
\* report.
StepPlan(modified1, modified2) ==
    IF modified1 THEN <<"step1", "step3", "step5">>
    ELSE <<"step1", "step2", IF modified2 THEN "step3" ELSE "step4", "step5">>

\* C12: in every call of Stem the steps run in this order: step 1 first;
\* step 2 if and only if step 1 reported no modification; then exactly one
\* of step 3 and step 4, step 3 if and only if step 1 or step 2 reported a
\* modification; step 5 once, last, whatever the others reported.  The steps
\* called so far are always the beginning of that sequence, and all of it
\* once the call has returned.
C12_StepOrderAndGates ==
    \A c \in DOMAIN pc :
        LET L    == frame[c].log
            plan == StepPlan(Len(L) >= 1 /\ L[1].modified,
                             Len(L) >= 2 /\ L[2].modified)
        IN  /\ Len(L) <= Len(plan)
            /\ \A i \in DOMAIN L : L[i].step = plan[i]
            /\ pc[c] \in {"enter", "step1"} => L = <<>>
            /\ pc[c] \in {"step2", "step3", "step4", "update", "step5"} =>
                  /\ L # <<>>
                  /\ Len(L) < Len(plan)
                  /\ pc[c] # "update" => plan[Len(L) + 1] = pc[c]
                  /\ pc[c] = "update" => plan[Len(L) + 1] = "step5"
            /\ pc[c] = "done" => Len(L) = Len(plan)

\* Stem("adequadamente") has returned after steps 1, 3 and 5 only: step 1
\* modified the word, so step 2 and step 4 were skipped.
C12_Witness ==
    \E c \in DOMAIN pc :
        /\ pc[c] = "done"
        /\ input[c] = "adequadamente"
        /\ frame[c].log = << [step |-> "step1", modified |-> TRUE],
                             [step |-> "step3", modified |-> FALSE],
                             [step |-> "step5", modified |-> FALSE] >>

-----------------------------------------------------------------------------
(* The five steps, each applied to one expanded word with the regions of   *)
(* that word, and Stem applied to the word; one call per word.             *)

InitStep ==
    /\ NoTree
    /\ call = NoCall
    /\ arg \in StemInputs
    /\ ps = NewPorterStemmer
    /\ pc = <<>>
    /\ input = <<>>
    /\ frame = <<>>
    /\ result = <<>>

\* The locals of Stem before line 647 for the word arg.
current == enter(ps, arg)

Step1Call ==
    /\ call = NoCall
    /\ call' = [fn |-> "step1", arg |-> current.stem,
                ret |-> step1(ps, current.stem, current.r1, current.r2, current.rv)]
    /\ UNCHANGED <<treeVars, arg, ps, stemVars>>

Step2Call ==
    /\ call = NoCall
    /\ call' = [fn |-> "step2", arg |-> current.stem,
                ret |-> step2(ps, current.stem, current.r1, current.r2, current.rv)]
    /\ UNCHANGED <<treeVars, arg, ps, stemVars>>

Step3Call ==
    /\ call = NoCall
    /\ call' = [fn |-> "step3", arg |-> current.stem,
                ret |-> step3(ps, current.stem, current.r1, current.r2, current.rv)]
    /\ UNCHANGED <<treeVars, arg, ps, stemVars>>

Step4Call ==
    /\ call = NoCall
    /\ call' = [fn |-> "step4", arg |-> current.stem,
                ret |-> step4(ps, current.stem, current.r1, current.r2, current.rv)]
    /\ UNCHANGED <<treeVars, arg, ps, stemVars>>

Step5Call ==
    /\ call = NoCall
    /\ call' = [fn |-> "step5", arg |-> current.stem,
                ret |-> step5(ps, current.stem, current.r1, current.r2, current.rv)]
    /\ UNCHANGED <<treeVars, arg, ps, stemVars>>

StemCall ==
    /\ call = NoCall
    /\ call' = [fn |-> "Stem", arg |-> arg, ret |-> Stem(ps, arg)]
    /\ UNCHANGED <<treeVars, arg, ps, stemVars>>

NextStep ==
    \/ Step1Call
    \/ Step2Call
    \/ Step3Call
    \/ Step4Call
    \/ Step5Call
    \/ StemCall

SpecStep == InitStep /\ [][NextStep]_vars

\* The words of a suffix table that are trailing substrings of w.
EndingsOf(table, w) == {e \in Range(table) : HasSuffix(w, e[1])}

\* The longest of them; there is at least one.
LongestOf(table, w) ==
    CHOOSE e \in EndingsOf(table, w) :
        \A d \in EndingsOf(table, w) : Len(d[1]) <= Len(e[1])

\* w without its last n characters.
DropLast(w, n) == SubSeq(w, 1, Len(w) - n)

StepNames == {"step1", "step2", "step3", "step4", "step5"}

\* Whether the region test of step 1 for a suffix of the given group fails.
RegionTestFails(w, suffix, group) ==
    CASE group = 4 -> ~HasSuffix(r(ps, w), suffix)
      [] group = 8 -> ~(HasSuffix(rv(ps, w), suffix) /\ HasSuffix(w, "e" \o suffix))
      [] OTHER     -> ~HasSuffix(r(ps, r(ps, w)), suffix)

\* C13: each of step1..step5, called on a word with the regions of that
\* word, returns modified = true if and only if the word it returns differs
\* from the word it was given; and when the longest step-1 suffix of the word
\* fails the region test of its category ("amente" not in R1 included),
\* step 1 returns the word unchanged and modified = false.
C13_ModifiedIffWordChanged ==
    /\ call.fn \in StepNames =>
          /\ call.ret.ok
          /\ call.ret.modified <=> (call.ret.word # call.arg)
    /\ (call.fn = "step1" /\ EndingsOf(step1Suffixes, call.arg) # {}) =>
          LET e == LongestOf(step1Suffixes, call.arg)
          IN  RegionTestFails(call.arg, e[1], e[2]) =>
                 (call.ret.word = call.arg /\ ~call.ret.modified)

\* step1("bamente") has returned ("bamente", false): "amente" matched, R1 is
\* "ente".
C13_Witness ==
    call = [fn |-> "step1", arg |-> "bamente",
            ret |-> [word |-> "bamente", modified |-> FALSE, ok |-> TRUE]]

\* C14: step 1 on a word whose longest step-1 suffix is "amente": if "amente"
\* is in R1 the word loses "amente", and also the "iv" before it when R2 ends
\* with "ivamente" (and the "at" before that when R2 ends with "ativamente"),
\* otherwise the "os", "ic" or "ad" before it when R2 ends with "osamente",
\* "icamente" or "adamente"; if "amente" is not in R1 the word is unchanged.
\* Stem("adequadamente") = "adequ" and Stem("anatomicamente") = "anatom".
C14_AmenteRule ==
    /\ (/\ call.fn = "step1"
        /\ EndingsOf(step1Suffixes, call.arg) # {}
        /\ LongestOf(step1Suffixes, call.arg)[1] = "amente") =>
          LET w    == call.arg
              R1   == r(ps, w)
              R2   == r(ps, R1)
              base == DropLast(w, 6)
              want == IF ~HasSuffix(R1, "amente") THEN w
                      ELSE IF HasSuffix(R2, "ativamente") THEN DropLast(base, 4)
                      ELSE IF HasSuffix(R2, "ivamente") THEN DropLast(base, 2)
                      ELSE IF \/ HasSuffix(R2, "osamente")
                              \/ HasSuffix(R2, "icamente")
                              \/ HasSuffix(R2, "adamente") THEN DropLast(base, 2)
                      ELSE base
          IN  /\ call.ret.ok
              /\ call.ret.word = want
              /\ call.ret.modified = HasSuffix(R1, "amente")
    /\ (call.fn = "Stem" /\ call.arg = "adequadamente") => call.ret = "adequ"
    /\ (call.fn = "Stem" /\ call.arg = "anatomicamente") => call.ret = "anatom"

\* step1("ababativamente") has returned "abab": "amente", "iv" and "at" were
\* removed, R2 being "ativamente".
C14_Witness ==
    call = [fn |-> "step1", arg |-> "ababativamente",
            ret |-> [word |-> "abab", modified |-> TRUE, ok |-> TRUE]]

\* C15: step 2 and step 4 look at RV only and cut at the end of the word: if
\* s is the longest suffix of the step's table that ends RV, the step returns
\* the word without its trailing s and modified = true, also when s occurs
\* earlier in the word; if no suffix of the table ends RV, it returns the
\* word unchanged and modified = false, also when the word itself ends with
\* a suffix of the table.
C15_Step2Step4CutInRV ==
    call.fn \in {"step2", "step4"} =>
        LET w     == call.arg
            table == IF call.fn = "step2" THEN step2Suffixes ELSE step4Suffixes
            RV    == rv(ps, w)
        IN  IF EndingsOf(table, RV) = {}
               THEN call.ret = [word |-> w, modified |-> FALSE, ok |-> TRUE]
               ELSE /\ call.ret.ok
                    /\ call.ret.modified
                    /\ call.ret.word \o LongestOf(table, RV)[1] = w

\* step4("ababa") has returned "abab": the "a" that ends RV = "ba" was cut at
\* the end of the word, not at an earlier "a".
C15_Witness ==
    call = [fn |-> "step4", arg |-> "ababa",
            ret |-> [word |-> "abab", modified |-> TRUE, ok |-> TRUE]]

\* C16: step 5: if none of "e", "é", "ê" ends RV, a word ending in "ç" gets
\* "c" for its last character (wherever RV starts) and any other word is
\* unchanged; if a suffix s ends RV, then if RV ends with "u"+s and the word
\* with "gu"+s the trailing "u"+s is removed, else if RV ends with "i"+s and
\* the word with "ci"+s the trailing "i"+s is removed, else only the
\* trailing s is removed.
C16_Step5Rule ==
    call.fn = "step5" =>
        LET w  == call.arg
            RV == rv(ps, w)
        IN  IF EndingsOf(step5Suffixes, RV) = {}
               THEN IF HasSuffix(w, "C")
                       THEN call.ret = [word |-> DropLast(w, 1) \o "c",
                                        modified |-> TRUE, ok |-> TRUE]
                       ELSE call.ret = [word |-> w, modified |-> FALSE, ok |-> TRUE]
               ELSE LET s == LongestOf(step5Suffixes, RV)[1]
                        n == IF HasSuffix(RV, "u" \o s) /\ HasSuffix(w, "gu" \o s)
                                THEN 2
                             ELSE IF HasSuffix(RV, "i" \o s) /\ HasSuffix(w, "ci" \o s)
                                THEN 2
                             ELSE 1
                    IN  call.ret = [word |-> DropLast(w, n),
                                    modified |-> TRUE, ok |-> TRUE]

\* step5("ababgue") has returned "ababg": "ue" was removed after "g".
C16_Witness ==
    call = [fn |-> "step5", arg |-> "ababgue",
            ret |-> [word |-> "ababg", modified |-> TRUE, ok |-> TRUE]]

-----------------------------------------------------------------------------
(* Regions and lengths during a call of Stem (SpecStem).                   *)

\* Whether x is a trailing substring of w, and not all of w unless w is "".
ProperSuffix(w, x) == HasSuffix(w, x) /\ (w # "" => Len(x) < Len(w))

\* C17 as stated: r(word) and rv(word) are trailing substrings of word,
\* shorter than a non-empty word, r(r(word)) is a trailing substring of
\* r(word), and at every point of a call of Stem R2 is a trailing substring
\* of R1, and R1 and RV are trailing substrings of the current word.
C17_RegionsAreSuffixesAtEveryPoint ==
    \A c \in DOMAIN pc :
        pc[c] # "enter" =>
            LET w == expandNasalisedVowels(input[c])
                f == frame[c]
            IN  /\ ProperSuffix(w, r(ps, w))
                /\ ProperSuffix(w, rv(ps, w))
                /\ HasSuffix(r(ps, w), r(ps, r(ps, w)))
                /\ HasSuffix(f.r1, f.r2)
                /\ HasSuffix(f.stem, f.r1)
                /\ HasSuffix(f.stem, f.rv)

\* C17, amended: r(word) and rv(word) are trailing substrings of word,
\* shorter than a non-empty word, r(r(word)) is a trailing substring of
\* r(word), and whenever a step is called during a call of Stem, R2 is a
\* trailing substring of R1, and R1 and RV are trailing substrings, shorter
\* than a non-empty word, of the word the step is called with.
C17_RegionsAreSuffixesAtEveryStep ==
    \A c \in DOMAIN pc :
        pc[c] # "enter" =>
            LET w == expandNasalisedVowels(input[c])
            IN  /\ ProperSuffix(w, r(ps, w))
                /\ ProperSuffix(w, rv(ps, w))
                /\ HasSuffix(r(ps, w), r(ps, r(ps, w)))
                /\ \A i \in DOMAIN frame[c].calls :
                       LET k == frame[c].calls[i]
                       IN  /\ HasSuffix(k.r1, k.r2)
                           /\ ProperSuffix(k.word, k.r1)
                           /\ ProperSuffix(k.word, k.rv)

\* Stem("abafaram") has returned: step 2 cut the word to "abaf" and step 3
\* was called with the regions "af", "" and "f" of "abaf".
C17_Witness ==
    \E c \in DOMAIN pc :
        /\ pc[c] = "done"
        /\ input[c] = "abafaram"
        /\ frame[c].calls[2].r1 = "afaram"
        /\ frame[c].calls[3] =
              [step |-> "step3", word |-> "abaf", r1 |-> "af", r2 |-> "",
               rv |-> "f"]

\* C18: Stem never lengthens a word: the word returned has at most as many
\* characters as the word passed, although steps 1 and 5 append "log", "u",
\* "ente", "ir" or "c" after a cut and the nasal vowels are written with two
\* characters in between.
C18_StemNeverLengthens ==
    \A c \in DOMAIN pc :
        pc[c] = "done" => Len(result[c]) <= Len(input[c])

\* Stem has returned "ababent" for "ababência": step 1 put "ente" in the
\* place of "ência" and step 5 removed the "e".
C18_Witness ==
    \E c \in DOMAIN pc :
        /\ pc[c] = "done"
        /\ input[c] = "abab3ncia"
        /\ result[c] = "ababent"
        /\ frame[c].log[1] = [step |-> "step1", modified |-> TRUE]

=============================================================================
